---- MODULE Spec2Model ----
(***************************************************************************)
(* Model of simple_imdb_user_review_crawler/_imdb_user_review_crawler.py:  *)
(* the field extractor parse_raw_item_to_imdb_user_review, the page parser *)
(* parse_raw_html_to_imdb_user_review_set_and_more_data and the pagination *)
(* loop of crawl_imdb_user_reviews_by_title_id.                            *)
(*                                                                         *)
(* A fetched page is the set of facts the XPath queries of the parser read *)
(* from it: the title link, the review blocks and the load-more marker.    *)
(* Time is counted in tenths of a second.                                  *)
(***************************************************************************)
EXTENDS Integers, Sequences, FiniteSets, TLC

(***************************************************************************)
(* Python values                                                           *)
(***************************************************************************)
\* Python's None where a string is expected (an absent attribute, a node
\* without text, an unset local).
None == "None"

\* Python's None where an int or a timestamp is expected; a present value v
\* is <<v>>.
NoValue == << >>

\* A node that does not exist where a node's text is read (no
\* span.point-scale in the block, getprevious() returning None).
NoNode == "NoNode"

\* The first node of a query's result list is <<node>>; a query that matched
\* nothing gives the empty list.
NoMatch == << >>

\* The dict {} .
EmptyDict == << >>

\* Truth value of a str-or-None: None and "" are falsy.
Truthy(s) == s # None /\ s # ""

\* Truth value of an int-or-None: None and 0 are falsy.
TruthyInt(v) == v # NoValue /\ v[1] # 0

\* value = key in target_dict and target_dict[key]; value if value else None
valid_value_from_dict(target_dict, key) ==
    IF key \in DOMAIN target_dict /\ Truthy(target_dict[key])
    THEN target_dict[key]
    ELSE None

\* str.strip() on the texts the pages of this model carry.
Strip(s) ==
    CASE s = " rv001 "         -> "rv001"
      [] s = " 12 March 2020 " -> "12 March 2020"
      [] s = " 8 "             -> "8"
      [] s = " The Movie "     -> "The Movie"
      [] s = " /title/tt1/ "   -> "/title/tt1/"
      [] s = "  "              -> ""
      [] OTHER                 -> s

\* Whether int(text) succeeds (otherwise it raises ValueError).
IsIntText(s) == s \in {"0", "3", "8", "10"}

\* int(text) for a text of decimal digits.
IntOf(s) ==
    CASE s = "0"  -> 0
      [] s = "3"  -> 3
      [] s = "8"  -> 8
      [] s = "10" -> 10

\* Whether datetime.strptime(text, "%d %B %Y") succeeds under the C locale.
IsDateText(s) == s \in {"12 March 2020", "3 July 2021"}

\* date(...).isoformat() of the parsed day, month name and year.
IsoDateOf(s) ==
    CASE s = "12 March 2020" -> "2020-03-12"
      [] s = "3 July 2021"   -> "2021-07-03"

\* MAXIMUM_RATING_REGEX.match(text): the maximum_rating group, or None when
\* the text has no "/<digits>" after its leading non-digits.
MaximumRatingGroup(s) ==
    CASE s = "/10" -> "10"
      [] s = "/0"  -> "0"
      [] s = " /10 " -> "10"
      [] OTHER     -> None

\* normalize_text([text]) for a single fragment: stripped, dropped if empty.
normalize_text(s) == Strip(s)

\* yarl.URL(input_str).with_query(None), as a string.
build_queryless_url_str_from_str(s) ==
    CASE s = "/title/tt1/?ref_=tt_urv" -> "/title/tt1/"
      [] OTHER                         -> s

(***************************************************************************)
(* Field extractor: parse_raw_item_to_imdb_user_review                     *)
(*                                                                         *)
(* A review block is what the extractor's queries find in one              *)
(* div.imdb-user-review node:                                              *)
(*   attrib      the node's attributes (a dict)                            *)
(*   date_texts  the text nodes under span.review-date (a list)            *)
(*   scale       NoNode when no span.point-scale exists, else its .text    *)
(*               (None for a node without text)                            *)
(*   score       what precedes the first span.point-scale: NoNode when     *)
(*               getprevious() is None, else that node's .text             *)
(***************************************************************************)

\* Lines 153-162: strptime raises ValueError on a text that is not
\* "<day> <month name> <year>".
DateRaises(block) ==
    /\ block.date_texts # << >>
    /\ ~IsDateText(Strip(block.date_texts[1]))

\* Lines 145-162: review_date.
ReviewDateOf(block) ==
    IF block.date_texts # << >>
    THEN IsoDateOf(Strip(block.date_texts[1]))
    ELSE None

\* Lines 216-229: the exception the rating extraction raises, or None.
\*   getprevious() is None      -> AttributeError (None has no .text)
\*   the previous node's .text is None -> AttributeError (None has no .strip)
\*   int() of a non-integer text -> ValueError
\*   re.match on a None text     -> TypeError
RatingException(block) ==
    IF block.scale = NoNode THEN None
    ELSE IF block.score = NoNode \/ block.score = None THEN "AttributeError"
    ELSE IF ~IsIntText(Strip(block.score)) THEN "ValueError"
    ELSE IF block.scale = None THEN "TypeError"
    ELSE None

\* The clearing step with only maximum_rating cleared.
ClearBothUnlessAll_KeepUser(user_rating, maximum_rating) ==
    IF ~(TruthyInt(user_rating) /\ TruthyInt(maximum_rating))
    THEN <<user_rating, NoValue>>
    ELSE <<user_rating, maximum_rating>>

\* Lines 231-234: if one of the values is missing, clear both.
ClearBothUnlessAll(user_rating, maximum_rating) ==
    IF ~(TruthyInt(user_rating) /\ TruthyInt(maximum_rating))
    THEN <<NoValue, NoValue>>
    ELSE <<user_rating, maximum_rating>>

\* Lines 209-234: <<user_rating, maximum_rating>> of a block whose rating
\* extraction does not raise.
RatingOf(block) ==
    IF block.scale = NoNode
    THEN <<NoValue, NoValue>>
    ELSE LET user_rating == <<IntOf(Strip(block.score))>>
             group       == MaximumRatingGroup(block.scale)
             maximum_rating ==
                 IF group # None THEN <<IntOf(group)>> ELSE NoValue
         IN  ClearBothUnlessAll(user_rating, maximum_rating)

\* The exceptions parse_raw_item_to_imdb_user_review can raise on a block
\* (the date is extracted before the rating, so a block that fails both
\* raises the date's ValueError).
ItemException(block) ==
    IF DateRaises(block) THEN "ValueError" ELSE RatingException(block)

\* Lines 119-287: the IMDbUserReview built from a block that raises nothing.
\* The record holds the fields whose extraction is modelled; the dataclass
\* compares and hashes by all of its fields.
parse_raw_item_to_imdb_user_review(title_id, title_name, title_relative_url, block) ==
    LET review_id_data == valid_value_from_dict(block.attrib, "data-review-id")
        rating         == RatingOf(block)
    IN  [ review_id          |-> IF review_id_data # None
                                 THEN Strip(review_id_data) ELSE None,
          review_date        |-> ReviewDateOf(block),
          title_id           |-> title_id,
          title_name         |-> title_name,
          title_relative_url |-> title_relative_url,
          maximum_rating     |-> rating[2],
          user_rating        |-> rating[1] ]

(***************************************************************************)
(* Page parser: parse_raw_html_to_imdb_user_review_set_and_more_data       *)
(*                                                                         *)
(* A page is what the parser's queries find in the response:               *)
(*   status      the response's status code                                *)
(*   title_link  NoMatch when no a[itemprop~=url] exists, else the first   *)
(*               one's <<[text, attrib]>>                                  *)
(*   reviews     the div.imdb-user-review blocks                           *)
(*   marker      NoMatch when no div.load-more-data exists, else the first *)
(*               one's attributes <<dict>>                                 *)
(***************************************************************************)

\* The guard with "or" for "and": discovery while either value is unknown.
DiscoversTitle_EitherUnknown(title_name, title_relative_url) ==
    ~Truthy(title_name) \/ ~Truthy(title_relative_url)

\* Line 305: title discovery runs only while neither value is known.
DiscoversTitle(title_name, title_relative_url) ==
    ~Truthy(title_name) /\ ~Truthy(title_relative_url)

\* Lines 314-316: whether the title query runs and finds a node.
FindsTitleLink(title_name, title_relative_url, page) ==
    /\ DiscoversTitle(title_name, title_relative_url)
    /\ page.title_link # NoMatch

\* Lines 316-320: normalize_text([None]) and None.strip() raise
\* AttributeError (a link without text, a link without a valid href).
TitleException(title_name, title_relative_url, page) ==
    IF /\ FindsTitleLink(title_name, title_relative_url, page)
       /\ \/ page.title_link[1].text = None
          \/ valid_value_from_dict(page.title_link[1].attrib, "href") = None
    THEN "AttributeError"
    ELSE None

\* Lines 305-325: the parser's local title_name after discovery.
LocalTitleName(title_name, title_relative_url, page) ==
    IF FindsTitleLink(title_name, title_relative_url, page)
    THEN normalize_text(page.title_link[1].text)
    ELSE title_name

\* Lines 305-325: the parser's local title_relative_url after discovery.
LocalTitleRelativeUrl(title_name, title_relative_url, page) ==
    IF FindsTitleLink(title_name, title_relative_url, page)
    THEN build_queryless_url_str_from_str(Strip(valid_value_from_dict(page.title_link[1].attrib, "href")))
    ELSE title_relative_url

\* Lines 299, 324-325: title_data.
TitleDataOf(title_name, title_relative_url, page) ==
    IF FindsTitleLink(title_name, title_relative_url, page)
    THEN [ k \in {"title_name", "title_relative_url"} |->
             IF k = "title_name"
             THEN LocalTitleName(title_name, title_relative_url, page)
             ELSE LocalTitleRelativeUrl(title_name, title_relative_url, page) ]
    ELSE EmptyDict

\* Lines 327-344: valid_user_review_set, each block parsed with the parser's
\* local title values.
ReviewSetOf(title_id, title_name, title_relative_url, page) ==
    { parse_raw_item_to_imdb_user_review(
          title_id,
          LocalTitleName(title_name, title_relative_url, page),
          LocalTitleRelativeUrl(title_name, title_relative_url, page),
          block) : block \in page.reviews }

\* Lines 346-361: more_data holds each of the two attributes that has a
\* non-empty value.
MoreDataOf(page) ==
    IF page.marker = NoMatch
    THEN EmptyDict
    ELSE [ key \in { k \in {"data-key", "data-ajaxurl"} :
                       valid_value_from_dict(page.marker[1], k) # None } |->
             page.marker[1][key] ]

\* The exceptions the parser can raise on a page: the title discovery's, or
\* that of the first review block (in document order) that raises.
PageExceptions(title_name, title_relative_url, page) ==
    IF TitleException(title_name, title_relative_url, page) # None
    THEN { TitleException(title_name, title_relative_url, page) }
    ELSE { ItemException(block) : block \in page.reviews } \ { None }

\* Lines 290-363: the parser's return value on a page that raises nothing.
parse_raw_html_to_imdb_user_review_set_and_more_data(title_id, title_name, title_relative_url, page) ==
    [ valid_user_review_set |-> ReviewSetOf(title_id, title_name, title_relative_url, page),
      title_data            |-> TitleDataOf(title_name, title_relative_url, page),
      more_data             |-> MoreDataOf(page) ]

(***************************************************************************)
(* Pagination driver: crawl_imdb_user_reviews_by_title_id                  *)
(***************************************************************************)

\* Line 21, in tenths of a second.
WAIT_TIME_IN_SECONDS == 5

\* Line 22.
BASE_IMDB_URL == "https://www.imdb.com"

\* Line 23: RELATIVE_IMDB_USER_REVIEWS_URL.format(title_id=title_id).
RELATIVE_IMDB_USER_REVIEWS_URL(title_id) == <<"/title/", title_id, "/reviews">>

\* yarl's URL.with_path: the base with the given path and no query.
with_path(base, path) == [ base |-> base, path |-> path, query |-> EmptyDict ]

\* yarl's URL.with_query: the same URL with the query replaced.
with_query(url, query) == [ url EXCEPT !.query = query ]

(***************************************************************************)
(* Bounds and the pages the server may answer with                         *)
(***************************************************************************)
\* The most requests one crawl issues before the model stops following it.
MaxRequests == 3

\* The most review blocks on one page of the extraction and merge families.
MaxReviews == 2

\* The most tenths of a second a request's latency and a sleep's overrun
\* take beyond their minimum.
MaxJitter == 1

TitleIds == { "tt1" }

Dict(key, value) == key :> value

\* A review block.
Block(attrib, date_texts, score, scale) ==
    [ attrib |-> attrib, date_texts |-> date_texts, score |-> score, scale |-> scale ]

\* A fetched page.
Page(status, title_link, reviews, marker) ==
    [ status |-> status, title_link |-> title_link, reviews |-> reviews, marker |-> marker ]

\* The well-formed review of the scenario: rv001, 12 March 2020, 8 of 10.
GoodBlock1 == Block(Dict("data-review-id", " rv001 "), <<" 12 March 2020 ">>, " 8 ", "/10")
GoodBlock2 == Block(Dict("data-review-id", "rv002"), <<"3 July 2021">>, "3", "/10")
GoodBlock3 == Block(Dict("data-review-id", "rv003"), << >>, NoNode, NoNode)
BadDateBlock == Block(Dict("data-review-id", "rv004"), <<"yesterday">>, "8", "/10")
NoScoreBlock == Block(Dict("data-review-id", "rv005"), <<"12 March 2020">>, NoNode, "/10")

GoodTitleLink == << [ text |-> " The Movie ", attrib |-> Dict("href", "/title/tt1/?ref_=tt_urv") ] >>

FullMarker == << Dict("data-key", "abc123") @@ Dict("data-ajaxurl", "/title/tt1/reviews/_ajax") >>

\* Every marker node: each of the two attributes absent, empty or set.
Markers ==
    { << [ key \in keys |-> IF key = "data-key" THEN k ELSE a ] >> :
        keys \in SUBSET {"data-key", "data-ajaxurl"},
        k \in {"", "abc123", "def456"},
        a \in {"/title/tt1/reviews/_ajax", "/title/tt1/reviews/_ajax2"} }

RECURSIVE SubsetsUpTo(_, _)
SubsetsUpTo(S, n) ==
    IF n = 0
    THEN { {} }
    ELSE LET smaller == SubsetsUpTo(S, n - 1)
         IN  smaller \cup { T \cup {x} : T \in smaller, x \in S }

\* An error-range answer whose body holds a review and a full marker.
ErrorPages ==
    { Page(status, GoodTitleLink, {GoodBlock3}, FullMarker) : status \in {400, 404, 599} }

\* Answers just outside the error range.
EdgePages ==
    { Page(status, NoMatch, {GoodBlock3}, NoMatch) : status \in {399, 600} }

\* Pagination family: every marker, on pages of one review.
PagingPages ==
    { Page(200, NoMatch, reviews, marker) :
        reviews \in {{GoodBlock1}, {GoodBlock2}, {BadDateBlock}},
        marker \in Markers \cup {NoMatch} }
    \cup ErrorPages \cup EdgePages

\* Merge family: overlapping pages of up to MaxReviews reviews.
MergePages ==
    { Page(200, title_link, reviews, marker) :
        title_link \in {NoMatch, GoodTitleLink},
        reviews \in SubsetsUpTo({GoodBlock1, GoodBlock2, GoodBlock3}, MaxReviews),
        marker \in {NoMatch, FullMarker} }
    \cup { Page(200, NoMatch, {NoScoreBlock}, NoMatch) }
    \cup ErrorPages \cup EdgePages

\* Title family: every title link.
TitleLinks ==
    { << [ text |-> text, attrib |-> attrib ] >> :
        text \in {None, "  ", " The Movie ", "Other"},
        attrib \in {EmptyDict, Dict("href", "  "), Dict("href", "/title/tt1/?ref_=tt_urv"), Dict("href", "/title/tt2/")} }

TitlePages ==
    { Page(200, title_link, {GoodBlock1}, marker) :
        title_link \in TitleLinks \cup {NoMatch},
        marker \in {NoMatch, FullMarker} }
    \cup { Page(404, NoMatch, {}, NoMatch) }

\* Extraction family: every review block, on last pages of up to MaxReviews
\* reviews, after pages of one well-formed review.
ExtractBlocks ==
    { Block(Dict("data-review-id", "rv001"), date_texts, rating[1], rating[2]) :
        date_texts \in {<< >>, <<"12 March 2020">>, <<"yesterday">>},
        rating \in { <<NoNode, NoNode>>, <<"8", "/10">>, <<"0", "/10">>, <<"8", "/0">>,
                     <<"8", "out of 10">>, <<NoNode, "/10">>, <<None, "/10">>,
                     <<"eight", "/10">>, <<"8", None>> } }

ExtractPages ==
    { Page(200, NoMatch, reviews, NoMatch) : reviews \in SubsetsUpTo(ExtractBlocks, MaxReviews) }
    \cup { Page(200, GoodTitleLink, {GoodBlock1}, FullMarker), Page(404, NoMatch, {}, NoMatch) }

\* Throttle family: a page that continues, one that ends, one error.
ThrottlePages ==
    { Page(200, NoMatch, {GoodBlock1}, FullMarker),
      Page(200, NoMatch, {BadDateBlock}, FullMarker),
      Page(200, NoMatch, {GoodBlock1}, NoMatch),
      Page(404, NoMatch, {}, NoMatch) }

Jitters == 0 .. MaxJitter

\* The time the loop body may take: none, just under the wait, or more.
Durations == {0, WAIT_TIME_IN_SECONDS - 1} \cup { WAIT_TIME_IN_SECONDS + j : j \in Jitters }

VARIABLES
    pc,                       \* "fetching", "parsing", "done" (returned), "raised"
    title_id,                 \* the crawl's argument
    user_review_set,          \* line 383
    title_name,               \* line 393
    title_relative_url,       \* line 394
    load_more_data_base_url,  \* line 399: NoValue or <<url>>
    current_url,              \* line 401
    load_more_data,           \* line 402
    last_get,                 \* line 404: NoValue or <<time>>
    response,                 \* line 415: the page being handled
    new_title_data,           \* line 435: the last parse's title_data
    exception,                \* the exception that ended the call, or None
    now,                      \* the clock datetime.utcnow() reads
    requests,                 \* every GET issued: [url, at]
    history,                  \* every response received, in order
    parsed                    \* the record set parsed from each parsed page

vars == << pc, title_id, user_review_set, title_name, title_relative_url, load_more_data_base_url, current_url, load_more_data, last_get, response, new_title_data, exception, now, requests, history, parsed >>

\* A throttle that never waits.
NeedsWait_Never(clock, last) == FALSE

\* Lines 408-412: the throttle loop's condition.
NeedsWait(clock, last) ==
    last # NoValue /\ clock - last[1] < WAIT_TIME_IN_SECONDS

\* The status check with 400 itself left out.
IsErrorStatus_Above400(status) == 400 < status /\ status < 600

\* Line 421.
IsErrorStatus(status) == 400 <= status /\ status < 600

\* The merge as an assignment of the page's set.
UpdateReviewSet_Replace(accumulated, current) ==
    IF current # {} THEN current ELSE accumulated

\* Lines 446-447: user_review_set.update(current_user_review_set).
UpdateReviewSet(accumulated, current) ==
    IF current # {} THEN accumulated \cup current ELSE accumulated

\* Lines 452-453 and 458-459: a title value is set only while it is unset.
KeepOrSet(old, new) == IF ~Truthy(old) /\ Truthy(new) THEN new ELSE old

\* The continuation base taken anew from every page that exposes one.
LearnBaseUrl_Overwrite(base_url, new_data_ajaxurl) ==
    IF new_data_ajaxurl # None
    THEN << with_path(BASE_IMDB_URL, <<new_data_ajaxurl>>) >>
    ELSE base_url

\* Lines 470-474: the continuation base is set only while it is unset.
LearnBaseUrl(base_url, new_data_ajaxurl) ==
    IF base_url = NoValue /\ new_data_ajaxurl # None
    THEN << with_path(BASE_IMDB_URL, <<new_data_ajaxurl>>) >>
    ELSE base_url

\* The decision without the data-key check of lines 465-468.
Continues_IgnoringKey(more_data, base_url) ==
    /\ more_data # EmptyDict
    /\ LearnBaseUrl(base_url, valid_value_from_dict(more_data, "data-ajaxurl")) # NoValue

\* Lines 461-478: whether the loop goes on after a parsed page.
Continues(more_data, base_url) ==
    /\ more_data # EmptyDict
    /\ valid_value_from_dict(more_data, "data-key") # None
    /\ LearnBaseUrl(base_url, valid_value_from_dict(more_data, "data-ajaxurl")) # NoValue

\* Lines 480-485.
NextUrl(base_url, data_key) ==
    with_query(base_url[1],
               [ k \in {"ref_", "paginationKey"} |->
                   IF k = "ref_" THEN "undefined" ELSE data_key ])

\* Lines 383-404: the state on entering the loop.
InitCrawl(title_ids) ==
    /\ title_id \in title_ids
    /\ pc = "fetching"
    /\ user_review_set = {}
    /\ title_name = None
    /\ title_relative_url = None
    /\ load_more_data_base_url = NoValue
    /\ current_url = with_path(BASE_IMDB_URL, RELATIVE_IMDB_USER_REVIEWS_URL(title_id))
    /\ load_more_data = TRUE
    /\ last_get = NoValue
    /\ response = NoMatch
    /\ new_title_data = EmptyDict
    /\ exception = None
    /\ now = 0
    /\ requests = << >>
    /\ history = << >>
    /\ parsed = << >>

\* Lines 408-413: one turn of the throttle loop; sleep() returns after at
\* least the time asked for.
Sleep(oversleeps) ==
    /\ pc = "fetching"
    /\ NeedsWait(now, last_get)
    /\ \E over \in oversleeps : now' = now + WAIT_TIME_IN_SECONDS + over
    /\ UNCHANGED << pc, title_id, user_review_set, title_name, title_relative_url, load_more_data_base_url, current_url, load_more_data, last_get, response, new_title_data, exception, requests, history, parsed >>

\* Lines 407-419: the throttle loop is over, the GET is issued and answered
\* after some latency, and last_get is read from the clock.
Get(pages, latencies) ==
    /\ pc = "fetching"
    /\ ~NeedsWait(now, last_get)
    /\ Len(requests) < MaxRequests
    /\ \E page \in pages, latency \in latencies :
         /\ requests' = Append(requests, [ url |-> current_url, at |-> now ])
         /\ now' = now + latency
         /\ last_get' = << now' >>
         /\ response' = page
         /\ history' = Append(history, page)
    /\ pc' = "parsing"
    /\ UNCHANGED << title_id, user_review_set, title_name, title_relative_url, load_more_data_base_url, current_url, load_more_data, new_title_data, exception, parsed >>

\* Line 415: client.get raises (a timeout, a connection failure); nothing
\* in the function catches it.
GetFails ==
    /\ pc = "fetching"
    /\ ~NeedsWait(now, last_get)
    /\ Len(requests) < MaxRequests
    /\ requests' = Append(requests, [ url |-> current_url, at |-> now ])
    /\ pc' = "raised"
    /\ exception' = "httpx.TransportError"
    /\ UNCHANGED << title_id, user_review_set, title_name, title_relative_url, load_more_data_base_url, current_url, load_more_data, last_get, response, new_title_data, now, history, parsed >>

\* Lines 421-485: the rest of the loop body, from the status check to the
\* next URL.  durations is the time the body may take.
HandleResponse(durations) ==
    /\ pc = "parsing"
    /\ \E duration \in durations : now' = now + duration
    /\ IF IsErrorStatus(response.status)
       THEN /\ load_more_data' = FALSE
            /\ pc' = "done"
            /\ UNCHANGED << user_review_set, title_name, title_relative_url, load_more_data_base_url, current_url, new_title_data, exception, parsed >>
       ELSE IF PageExceptions(title_name, title_relative_url, response) # {}
       THEN /\ pc' = "raised"
            /\ exception' \in PageExceptions(title_name, title_relative_url, response)
            /\ UNCHANGED << user_review_set, title_name, title_relative_url, load_more_data_base_url, current_url, load_more_data, new_title_data, parsed >>
       ELSE LET result == parse_raw_html_to_imdb_user_review_set_and_more_data(title_id, title_name, title_relative_url, response)
                more_data == result.more_data
                data_key == valid_value_from_dict(more_data, "data-key")
                new_data_ajaxurl == valid_value_from_dict(more_data, "data-ajaxurl")
            IN  /\ user_review_set' = UpdateReviewSet(user_review_set, result.valid_user_review_set)
                /\ parsed' = Append(parsed, result.valid_user_review_set)
                /\ new_title_data' = result.title_data
                /\ title_name' = KeepOrSet(title_name, valid_value_from_dict(result.title_data, "title_name"))
                /\ title_relative_url' = KeepOrSet(title_relative_url, valid_value_from_dict(result.title_data, "title_relative_url"))
                /\ IF Continues(more_data, load_more_data_base_url)
                   THEN /\ load_more_data_base_url' = LearnBaseUrl(load_more_data_base_url, new_data_ajaxurl)
                        /\ current_url' = NextUrl(load_more_data_base_url', data_key)
                        /\ load_more_data' = TRUE
                        /\ pc' = "fetching"
                   ELSE /\ load_more_data_base_url' = load_more_data_base_url
                        /\ current_url' = current_url
                        /\ load_more_data' = FALSE
                        /\ pc' = "done"
                /\ UNCHANGED exception
    /\ UNCHANGED << title_id, last_get, response, requests, history >>

(***************************************************************************)
(* Specifications: one crawl, fed by each family of pages                  *)
(***************************************************************************)
Init == InitCrawl(TitleIds)

NextPaging == Sleep({0}) \/ Get(PagingPages, {0}) \/ GetFails \/ HandleResponse({0})
SpecPaging == Init /\ [][NextPaging]_vars

NextMerge == Sleep({0}) \/ Get(MergePages, {0}) \/ GetFails \/ HandleResponse({0})
SpecMerge == Init /\ [][NextMerge]_vars

NextTitle == Sleep({0}) \/ Get(TitlePages, {0}) \/ GetFails \/ HandleResponse({0})
SpecTitle == Init /\ [][NextTitle]_vars

NextExtract == Sleep({0}) \/ Get(ExtractPages, {0}) \/ GetFails \/ HandleResponse({0})
SpecExtract == Init /\ [][NextExtract]_vars

NextThrottle == Sleep(Jitters) \/ Get(ThrottlePages, Jitters) \/ GetFails \/ HandleResponse(Durations)
SpecThrottle == Init /\ [][NextThrottle]_vars

Next == NextPaging
Spec == SpecPaging

(***************************************************************************)
(* Properties                                                              *)
(***************************************************************************)
\* A status in the client/server error range 400..599.
InErrorRange(status) == status \in 400 .. 599

\* The value of a marker attribute of a page, None when the page has no
\* marker, or the marker lacks the attribute or holds it empty.
MarkerValue(page, key) ==
    IF page.marker # NoMatch /\ key \in DOMAIN page.marker[1] /\ page.marker[1][key] # ""
    THEN page.marker[1][key]
    ELSE None

OffersKey(page) == MarkerValue(page, "data-key") # None

ExposesAjaxUrl(page) == MarkerValue(page, "data-ajaxurl") # None

\* The i-th response has been dealt with by the loop body.
Handled(i) == i < Len(history) \/ pc # "parsing"

\* The data-ajaxurl of the first of the pages 1..i that exposes one.
FirstAjaxUrl(i) ==
    LET j == CHOOSE j \in 1 .. i :
                 /\ ExposesAjaxUrl(history[j])
                 /\ \A m \in 1 .. j - 1 : ~ExposesAjaxUrl(history[m])
    IN  MarkerValue(history[j], "data-ajaxurl")

UnionOfParsed(n) == UNION { parsed[i] : i \in 1 .. n }

\* C1: once a fetched page that offers no continuation key, or a response
\* with a status in 400..599, has been handled, the crawl has reached DONE
\* and returned, and no request was issued after that page.
C1_TerminatesAndReturns ==
    \A i \in 1 .. Len(history) :
        (Handled(i) /\ (InErrorRange(history[i].status) \/ ~OffersKey(history[i])))
            => (pc = "done" /\ ~load_more_data /\ Len(requests) = i)

\* C2: when the k-th response has a status in 400..599, the crawl ends
\* without an exception, its result is the union of the record sets parsed
\* from responses 1..k-1, the k-th body is not parsed, and no request
\* follows it.
C2_ErrorResponseReturnsEarlierRecords ==
    \A k \in 1 .. Len(history) :
        (InErrorRange(history[k].status) /\ Handled(k))
            => /\ pc = "done"
               /\ exception = None
               /\ Len(parsed) = k - 1
               /\ user_review_set = UnionOfParsed(k - 1)
               /\ Len(requests) = k

C2_Witness ==
    /\ pc = "done"
    /\ Len(history) = 3
    /\ InErrorRange(history[3].status)
    /\ Cardinality(user_review_set) >= 2
    /\ history[3].reviews # {}

\* C3: every request after the first goes to the base host with the path of
\* the first data-ajaxurl any earlier page exposed, and the query
\* ref_=undefined, paginationKey=<data-key of the page just before>.
C3_NextRequestUrl ==
    \A i \in 2 .. Len(requests) :
        /\ i - 1 <= Len(history)
        /\ \E j \in 1 .. i - 1 : ExposesAjaxUrl(history[j])
        /\ OffersKey(history[i - 1])
        /\ requests[i].url =
              [ base  |-> "https://www.imdb.com",
                path  |-> << FirstAjaxUrl(i - 1) >>,
                query |-> ("ref_" :> "undefined") @@
                          ("paginationKey" :> MarkerValue(history[i - 1], "data-key")) ]

C3_Witness ==
    /\ Len(requests) = 3
    /\ ExposesAjaxUrl(history[2])
    /\ MarkerValue(history[2], "data-ajaxurl") # MarkerValue(history[1], "data-ajaxurl")
    /\ MarkerValue(history[2], "data-key") # MarkerValue(history[1], "data-key")

\* C4 as stated: a page whose load-more marker lacks data-key or
\* data-ajaxurl is the last page requested, wherever in the crawl it comes.
C4_EitherMissingEndsPagination ==
    \A i \in 1 .. Len(history) :
        (/\ history[i].marker # NoMatch
         /\ (~OffersKey(history[i]) \/ ~ExposesAjaxUrl(history[i])))
            => Len(requests) <= i

\* C4 amended: a page whose marker lacks data-key is the last page
\* requested; a page whose marker lacks data-ajaxurl is the last page
\* requested when no earlier page exposed a data-ajaxurl; a non-error page
\* whose marker has a data-key but no data-ajaxurl, coming after a page that
\* exposed one, does not bring the crawl to DONE, and a request that follows
\* it goes to the path learned earlier with that page's key.
C4_MissingKeyOrUnknownBaseEndsPagination ==
    \A i \in 1 .. Len(history) :
        history[i].marker # NoMatch =>
            /\ ~OffersKey(history[i]) => Len(requests) <= i
            /\ (/\ ~ExposesAjaxUrl(history[i])
                /\ \A j \in 1 .. i - 1 : ~ExposesAjaxUrl(history[j]))
                   => Len(requests) <= i
            /\ (/\ OffersKey(history[i])
                /\ ~ExposesAjaxUrl(history[i])
                /\ \E j \in 1 .. i - 1 : ExposesAjaxUrl(history[j])
                /\ ~InErrorRange(history[i].status))
                   => /\ i = Len(history) => pc # "done"
                      /\ i < Len(requests) =>
                            /\ requests[i + 1].url.path = << FirstAjaxUrl(i - 1) >>
                            /\ requests[i + 1].url.query["paginationKey"] = MarkerValue(history[i], "data-key")

C4_Witness ==
    /\ Len(requests) = 3
    /\ Len(history) = 3
    /\ history[2].status = 200
    /\ history[2].marker # NoMatch
    /\ OffersKey(history[2])
    /\ ~ExposesAjaxUrl(history[2])
    /\ requests[3].url.query["paginationKey"] = MarkerValue(history[2], "data-key")

\* C5: a title name or title relative path that has a non-empty value keeps
\* it in every step, and a page parsed while either is known yields no title
\* data (the parser did not discover a title again).
C5_TitleKeptOnceKnown ==
    [][ /\ Truthy(title_name) => title_name' = title_name
        /\ Truthy(title_relative_url) => title_relative_url' = title_relative_url
        /\ ((Truthy(title_name) \/ Truthy(title_relative_url)) /\ parsed' # parsed)
              => new_title_data' = EmptyDict ]_vars

C5_Witness ==
    /\ Len(parsed) = 2
    /\ title_name = "The Movie"
    /\ title_relative_url = "/title/tt1/"
    /\ history[2].title_link # NoMatch
    /\ history[2].title_link[1].text = "Other"
    /\ history[2].title_link[1].attrib = Dict("href", "/title/tt2/")

\* C6: in every record parsed from a page, and in every record of the
\* accumulated set, user_rating is null iff maximum_rating is null.
C6_RatingPairNullTogether ==
    \A r \in user_review_set \cup UnionOfParsed(Len(parsed)) :
        (r.user_rating = NoValue) <=> (r.maximum_rating = NoValue)

C6_Witness ==
    /\ pc = "done"
    /\ \E b \in history[Len(history)].reviews : b.score = "8" /\ b.scale = "out of 10"
    /\ \E r \in user_review_set : r.user_rating = NoValue /\ r.maximum_rating = NoValue

\* C7: a handled non-error page holding a review block with the rating-scale
\* node and a missing or unparsable user score (and nothing else that could
\* fail) has been parsed, with a record whose user_rating and maximum_rating
\* are both null.
C7_MissingScoreGivesNullPair ==
    \A i \in 1 .. Len(history) :
        (/\ Handled(i)
         /\ ~InErrorRange(history[i].status)
         /\ \E b \in history[i].reviews :
               /\ b.scale \notin {NoNode, None}
               /\ (b.score \in {NoNode, None} \/ ~IsIntText(Strip(b.score)))
         /\ \A b \in history[i].reviews : ~DateRaises(b) /\ b.scale # None)
            => /\ i <= Len(parsed)
               /\ \E r \in parsed[i] : r.user_rating = NoValue /\ r.maximum_rating = NoValue

\* C8: a handled non-error page holding a review block whose date text is
\* not a day, month name and year (and nothing else that could fail) has
\* been parsed, with a record whose review_date is null, and the crawl has
\* not failed.
C8_BadDateGivesNullDate ==
    \A i \in 1 .. Len(history) :
        (/\ Handled(i)
         /\ ~InErrorRange(history[i].status)
         /\ \E b \in history[i].reviews :
               b.date_texts # << >> /\ ~IsDateText(Strip(b.date_texts[1]))
         /\ \A b \in history[i].reviews : RatingException(b) = None)
            => /\ i <= Len(parsed)
               /\ \E r \in parsed[i] : r.review_date = None
               /\ exception = None

\* C9: the first request is issued at once, and every later request starts
\* at least WAIT_TIME_IN_SECONDS after the start of the one before it.
C9_RequestsSpacedByWaitTime ==
    /\ Len(requests) >= 1 => requests[1].at = 0
    /\ \A i \in 2 .. Len(requests) :
          requests[i].at - requests[i - 1].at >= WAIT_TIME_IN_SECONDS

C9_Witness ==
    /\ Len(requests) = 3
    /\ requests[2].at - requests[1].at = WAIT_TIME_IN_SECONDS
    /\ requests[3].at - requests[2].at > WAIT_TIME_IN_SECONDS

\* C10: the accumulated record set is the union of the record sets parsed so
\* far, one per non-error response handled, each record held once.
C10_AccumulatedIsUnionOfParsed ==
    /\ user_review_set = UnionOfParsed(Len(parsed))
    /\ Len(parsed) =
          Cardinality({ i \in 1 .. Len(history) :
                          /\ Handled(i)
                          /\ ~InErrorRange(history[i].status)
                          /\ ~(i = Len(history) /\ exception \in {"AttributeError", "ValueError", "TypeError"}) })

C10_Witness ==
    /\ pc = "done"
    /\ Len(parsed) = 3
    /\ parsed[1] \cap parsed[2] # {}
    /\ parsed[1] # parsed[2]
    /\ Cardinality(user_review_set) < Cardinality(parsed[1]) + Cardinality(parsed[2]) + Cardinality(parsed[3])
    /\ Cardinality(user_review_set) = 3

====
